---- MODULE Spec2Model ----
(***************************************************************************)
(* Lynx: content-addressed ingestion cache (src/ingestion.py) and the      *)
(* index bootstrap / query driver (src/main.py).                           *)
(*                                                                         *)
(* Texts and file contents are sequences of one-character strings.  The    *)
(* persistent cache store is the set of documents of the Mongo collection  *)
(* `coll`; the vector index is the sequence of records held by `vectordb`. *)
(* Several independent processes run ingestion calls against the same      *)
(* store and the same files; every access to the store or to the file      *)
(* system is a step of its own, so that the other processes and the file   *)
(* system events interleave with it.                                       *)
(***************************************************************************)
EXTENDS Integers, Sequences, FiniteSets, TLC

(***************************************************************************)
(* Bounds of the exploration.                                              *)
(***************************************************************************)
\* ingestion calls the processes make on their own
MaxCalls == 2
\* bootstraps and program runs
MaxBoots == 2
\* faults of the environment: a source file rewritten or removed by another
\* program, a persistence error (other than the duplicate key) of the store
MaxFaults == 1
\* retrieved chunks handed to the context assembler, and its per-chunk limit
MaxDocs == 2
MaxLimit == 2
\* characters of an HTML input handed to the HTML normalization, and its max_chars
MaxHtmlLen == 4
MaxHtmlChars == 3

(***************************************************************************)
(* Program constants, scaled down so that every limit is hit by the small  *)
(* contents explored (200_000 -> 3, 100_000 -> 2, 500 -> 2, 800 -> 2,      *)
(* 100 -> 1).                                                              *)
(***************************************************************************)
MAX_CHARS == 3
CSV_FALLBACK_CHARS == 2
MAX_ROWS_PREVIEW == 2
CHUNK_SIZE == 2
CHUNK_OVERLAP == 1

Procs == {"p1", "p2"}

(***************************************************************************)
(* Sequences helpers.                                                      *)
(***************************************************************************)
Min(a, b) == IF a <= b THEN a ELSE b

\* s[:n]
Prefix(s, n) == SubSeq(s, 1, Min(Len(s), n))

Range(s) == {s[i] : i \in 1..Len(s)}

RECURSIVE Join(_, _)
\* sep.join(parts)
Join(parts, sep) ==
    IF Len(parts) = 0 THEN <<>>
    ELSE IF Len(parts) = 1 THEN parts[1]
    ELSE parts[1] \o sep \o Join(Tail(parts), sep)

RECURSIVE Flatten(_)
\* the concatenation of a sequence of sequences
Flatten(ss) == IF Len(ss) = 0 THEN <<>> ELSE ss[1] \o Flatten(Tail(ss))

(***************************************************************************)
(* File names and dispatch.                                                *)
(***************************************************************************)
\* the input directory, in the order os.walk lists it
Corpus ==
    << <<"a", ".", "P", "D", "F">>,
       <<"b", ".", "c", "s", "v">>,
       <<"c", ".", "j", "s", "o", "n">>,
       <<"d", ".", "h", "t", "m">>,
       <<"e">>,
       <<".", "x">> >>

FileIds == 1..Len(Corpus)

\* str.lower() on one character
LowerChar(ch) ==
    CASE ch = "P" -> "p"
      [] ch = "D" -> "d"
      [] ch = "F" -> "f"
      [] ch = "C" -> "c"
      [] ch = "S" -> "s"
      [] ch = "V" -> "v"
      [] ch = "J" -> "j"
      [] ch = "O" -> "o"
      [] ch = "N" -> "n"
      [] ch = "H" -> "h"
      [] ch = "T" -> "t"
      [] ch = "M" -> "m"
      [] ch = "L" -> "l"
      [] OTHER -> ch

Lower(s) == [i \in 1..Len(s) |-> LowerChar(s[i])]

\* os.path.splitext(path)[1]: in the last component of the path, from the
\* last dot on, leading dots not counting
SplitExt(path) ==
    LET seps == {i \in 1..Len(path) : path[i] = "/"}
        from == IF seps = {} THEN 1
                ELSE 1 + CHOOSE i \in seps : \A j \in seps : j <= i
        name == SubSeq(path, from, Len(path))
        dots == {i \in 1..Len(name) : name[i] = "."}
        lead == {i \in 1..Len(name) : \A j \in 1..i : name[j] = "."}
    IN  IF dots \subseteq lead THEN <<>>
        ELSE LET k == CHOOSE i \in dots : \A j \in dots : j <= i
             IN  SubSeq(name, k, Len(name))

\* a dispatch that compares the extension as it is written
ParserOfAsWritten(name) ==
    LET ext == SplitExt(name)
    IN  IF ext = <<".", "p", "d", "f">> THEN "pdf"
        ELSE IF ext = <<".", "c", "s", "v">> THEN "csv"
        ELSE IF ext = <<".", "j", "s", "o", "n">> THEN "json"
        ELSE IF ext \in {<<".", "h", "t", "m", "l">>, <<".", "h", "t", "m">>} THEN "html"
        ELSE "txt_or_other"

\* the parser parse_file_by_type selects
ParserOf(name) ==
    LET ext == Lower(SplitExt(name))
    IN  IF ext = <<".", "p", "d", "f">> THEN "pdf"
        ELSE IF ext = <<".", "c", "s", "v">> THEN "csv"
        ELSE IF ext = <<".", "j", "s", "o", "n">> THEN "json"
        ELSE IF ext \in {<<".", "h", "t", "m", "l">>, <<".", "h", "t", "m">>} THEN "html"
        ELSE "txt_or_other"

\* fname.startswith(".")
IsDotFile(name) == Len(name) > 0 /\ name[1] = "."

(***************************************************************************)
(* Hashing.                                                                *)
(***************************************************************************)
\* sha256 over the bytes read: deterministic, and collision free
Sha256(bytes) == <<"sha256">> \o bytes

(***************************************************************************)
(* Format normalizers.  Each takes the bytes the parser reads from the     *)
(* file and gives the markdown and the metadata it proposes to the cache.  *)
(* A "!" stands for a syntax error of the structured formats, "<s>" for a  *)
(* whole script/style/noscript element.                                    *)
(***************************************************************************)
\* the literal block delimiters of the markdown (three backquotes)
FENCE == "[fence]\n"
JSON_FENCE == "[fence]json\n"
FENCE_END == "\n[fence]"
TRUNCATED == "\n...truncated"
HTML_TRUNCATED == "\n\n...truncated"

IsSpace(ch) == ch \in {" ", "\n"}

RECURSIVE SplitLines(_)
\* str.splitlines()
SplitLines(s) ==
    IF Len(s) = 0 THEN <<>>
    ELSE IF \A i \in 1..Len(s) : s[i] # "\n" THEN <<s>>
    ELSE LET k == CHOOSE i \in 1..Len(s) :
                      s[i] = "\n" /\ \A j \in 1..(i - 1) : s[j] # "\n"
         IN  <<SubSeq(s, 1, k - 1)>> \o SplitLines(SubSeq(s, k + 1, Len(s)))

RECURSIVE Strip(_)
\* str.strip()
Strip(s) ==
    IF Len(s) = 0 THEN s
    ELSE IF IsSpace(s[1]) THEN Strip(Tail(s))
    ELSE IF IsSpace(s[Len(s)]) THEN Strip(SubSeq(s, 1, Len(s) - 1))
    ELSE s

NotSpace(ch) == ~IsSpace(ch)
NotScript(ch) == ch # "<s>"
NonEmpty(line) == Len(line) > 0

\* the results the external PDF service may give for a file: it fails, or it
\* returns the pages of the document (how it cuts the pages is up to the service)
PdfServiceResults(bytes) ==
    {[ok |-> FALSE, pages |-> <<>>]}
        \cup {[ok |-> TRUE, pages |-> <<bytes>>]}
        \cup {[ok |-> TRUE, pages |-> <<SubSeq(bytes, 1, k), SubSeq(bytes, k + 1, Len(bytes))>>] :
                k \in 1..(Len(bytes) - 1)}

\* parse_pdf_document, lines 92-96: the markdown and metadata of a service result
PdfNormalize(pages) ==
    [md |-> Join(pages, <<"\n", "\n">>),
     meta |-> [type |-> "pdf", pages |-> Len(pages)]]

\* pd.read_csv raises on an empty or malformed table
CsvMalformed(bytes) == Len(Strip(bytes)) = 0 \/ "!" \in Range(bytes)

\* parse_csv_document, lines 115-135
CsvNormalize(bytes, max_rows_preview) ==
    IF CsvMalformed(bytes)
    THEN [md |-> <<FENCE>> \o Prefix(bytes, CSV_FALLBACK_CHARS) \o <<FENCE_END>>,
          meta |-> [type |-> "csv", error |-> "ParserError"]]
    ELSE LET lines == SelectSeq(SplitLines(bytes), NonEmpty)
             cols == SelectSeq(lines[1], NotSpace)
             rows == Tail(lines)
             preview == Prefix(rows, max_rows_preview)
         IN  [md |-> <<"### Schema\n\n">> \o cols
                       \o <<"\n\n### Preview (first rows)\n\n">>
                       \o Join(preview, <<"\n">>),
              meta |-> [type |-> "csv", rows |-> Len(rows), cols |-> Len(cols)]]

\* json.load raises on an empty or malformed document
JsonMalformed(bytes) == Len(Strip(bytes)) = 0 \/ "!" \in Range(bytes)

\* json.dumps(json.load(f), indent=2): the payload with its own layout dropped
JsonPretty(bytes) == SelectSeq(bytes, NotSpace)

\* parse_json_document, lines 153-164
JsonNormalize(bytes, max_chars) ==
    LET raw == Prefix(bytes, max_chars)
        pretty ==
            IF JsonMalformed(bytes)
            THEN Prefix(raw, max_chars)
                     \o (IF Len(raw) = max_chars THEN <<TRUNCATED>> ELSE <<>>)
            ELSE JsonPretty(bytes)
    IN  [md |-> <<JSON_FENCE>> \o pretty \o <<FENCE_END>>,
         meta |-> [type |-> "json"]]

\* parse_html_document, lines 181-193
HtmlNormalize(bytes, max_chars) ==
    LET raw == Prefix(bytes, max_chars)
        text == SelectSeq(raw, NotScript)
        stripped == [i \in 1..Len(SplitLines(text)) |-> Strip(SplitLines(text)[i])]
        lines == SelectSeq(stripped, NonEmpty)
        text_clean == Join(lines, <<"\n", "\n">>)
    IN  [md |-> IF Len(text_clean) <= max_chars THEN text_clean
                ELSE Prefix(text_clean, max_chars) \o <<HTML_TRUNCATED>>,
         meta |-> [type |-> "html"]]

\* a plain/unknown parser that stores its text without naming its type
PlainNormalizeUntyped(bytes) ==
    [md |-> Prefix(bytes, MAX_CHARS), meta |-> [source |-> "txt_or_other"]]

\* parse_file_by_type, lines 212-215: the plain/unknown parser
PlainNormalize(bytes) ==
    [md |-> Prefix(bytes, MAX_CHARS), meta |-> [type |-> "txt_or_other"]]

\* the results a parser's normalization step may give on the bytes it reads
ParseResults(kind, bytes) ==
    CASE kind = "pdf" ->
            {IF r.ok THEN [ok |-> TRUE] @@ PdfNormalize(r.pages)
                     ELSE [ok |-> FALSE, err |-> "ExternalServiceFailure"] :
                r \in PdfServiceResults(bytes)}
      [] kind = "csv" -> {[ok |-> TRUE] @@ CsvNormalize(bytes, MAX_ROWS_PREVIEW)}
      [] kind = "json" -> {[ok |-> TRUE] @@ JsonNormalize(bytes, MAX_CHARS)}
      [] kind = "html" -> {[ok |-> TRUE] @@ HtmlNormalize(bytes, MAX_CHARS)}
      [] OTHER -> {[ok |-> TRUE] @@ PlainNormalize(bytes)}

(***************************************************************************)
(* Chunker: RecursiveCharacterTextSplitter(chunk_size, chunk_overlap).     *)
(***************************************************************************)
RECURSIVE SplitFrom(_, _, _, _)
SplitFrom(text, from, size, overlap) ==
    IF from > Len(text) THEN <<>>
    ELSE IF from + size - 1 >= Len(text) THEN <<SubSeq(text, from, Len(text))>>
    ELSE <<SubSeq(text, from, from + size - 1)>>
             \o SplitFrom(text, from + size - overlap, size, overlap)

\* splitter.split_text(md): windows of `size`, consecutive ones sharing `overlap`
SplitText(text, size, overlap) == SplitFrom(text, 1, size, overlap)

(***************************************************************************)
(* The cache store: a collection with a unique index on file_hash.         *)
(***************************************************************************)
None == [none |-> TRUE]

\* coll.find_one({"file_hash": file_hash})
FindOne(c, file_hash) ==
    IF \E d \in c : d.file_hash = file_hash
    THEN CHOOSE d \in c : d.file_hash = file_hash
    ELSE None

\* insert_one on a collection without the unique index
InsertOneNoIndex(c, doc) == [dup |-> FALSE, coll |-> c \cup {doc}]

\* an update in place (replace_one with upsert=True) instead of insert_one
InsertOneReplace(c, doc) ==
    [dup |-> FALSE, coll |-> {d \in c : d.file_hash # doc.file_hash} \cup {doc}]

\* coll.insert_one(doc) under the unique index of line 24: the collection
\* afterwards, and whether DuplicateKeyError was raised
InsertOne(c, doc) ==
    IF \E d \in c : d.file_hash = doc.file_hash
    THEN [dup |-> TRUE, coll |-> c]
    ELSE [dup |-> FALSE, coll |-> c \cup {doc}]

\* get_cached_parse, lines 38-40
get_cached_parse(c, file_hash) == FindOne(c, file_hash)

\* upsert_parsed_doc, lines 45-54
NewDoc(name, file_hash, md, meta, stat, now) ==
    [file_hash |-> file_hash,
     file_path |-> name,
     file_size |-> stat.size,
     file_mtime |-> stat.mtime,
     md |-> md,
     meta |-> meta,
     cached_at |-> now]

\* the duplicate key answered with the document that was refused
DuplicateReturnProposed(cached, doc) == doc

\* upsert_parsed_doc, line 61
DuplicateReturn(cached, doc) == IF cached # None THEN cached ELSE doc

(***************************************************************************)
(* What the parsers and the bootstrap compute from their local variables.  *)
(***************************************************************************)
\* the return statement of the cache-hit path (lines 80, 112, 151, 179)
HitReturn(cached, file_hash) ==
    [md |-> cached.md,
     meta |-> [cached |-> TRUE, file_hash |-> file_hash, cached_at |-> cached.cached_at]]

\* a parser returning the markdown it computed, not the stored one
MissReturnOwn(kind, md, meta, stored, file_hash) ==
    [md |-> md, meta |-> [cached |-> FALSE, file_hash |-> file_hash]]

\* the return statement after upsert_parsed_doc (lines 97, 123, 136, 165, 194, 216)
MissReturn(kind, md, meta, stored, file_hash) ==
    [md |-> stored.md,
     meta |-> IF kind = "pdf"
              THEN [cached |-> FALSE, file_hash |-> file_hash, stored_at |-> stored.cached_at]
              ELSE IF kind = "csv" /\ "rows" \in DOMAIN meta
              THEN [cached |-> FALSE, file_hash |-> file_hash, rows |-> meta.rows]
              ELSE [cached |-> FALSE, file_hash |-> file_hash]]

\* a parser that consults the cache whatever use_cache says
AfterHashLookup(kind, use_cache) ==
    IF kind = "txt_or_other" THEN "upsert" ELSE "lookup"

\* what a call does once it has the fingerprint: the plain/unknown path
\* stores its text (line 215), a parser consults the cache if use_cache
\* (lines 77, 109, 148, 176) and normalizes otherwise
AfterHash(kind, use_cache) ==
    IF kind = "txt_or_other" THEN "upsert"
    ELSE IF use_cache THEN "lookup"
    ELSE "parse"

\* a bootstrap that ingests whatever the probe said
ShouldIngestAlways(has_content) == TRUE

\* main.py line 45: whether the bootstrap ingests the input directory
ShouldIngest(has_content) == ~has_content

\* a splitter that keeps the default configuration whatever the run read
SplitterDefault(chunk_size, chunk_overlap) ==
    [chunk_size |-> CHUNK_SIZE, chunk_overlap |-> CHUNK_OVERLAP]

\* main.py line 46: the splitter a bootstrap builds from its configuration
Splitter(chunk_size, chunk_overlap) ==
    [chunk_size |-> chunk_size, chunk_overlap |-> chunk_overlap]

\* chunk ids counted from one
ChunkMetadatasFromOne(fname, meta, chunks) ==
    [i \in 1..Len(chunks) |->
        [source |-> fname,
         file_hash |-> IF "file_hash" \in DOMAIN meta THEN meta.file_hash ELSE None,
         chunk_id |-> i]]

\* main.py lines 63-65: the metadata of the chunks of one file
ChunkMetadatas(fname, meta, chunks) ==
    [i \in 1..Len(chunks) |->
        [source |-> fname,
         file_hash |-> IF "file_hash" \in DOMAIN meta THEN meta.file_hash ELSE None,
         chunk_id |-> i - 1]]

\* an add of whatever the walk gave, were it nothing
ShouldAddAlways(texts) == TRUE

\* main.py line 67: whether the batch is added to the index
ShouldAdd(texts) == texts # <<>>

\* a failing file ending the walk (break, or the exception let through)
AfterFailureStop(i, n) == n + 1

\* main.py lines 57-59: the position of the walk after a file that failed
AfterFailure(i, n) == i + 1

\* vectordb.similarity_search(query, k): the k best records of the index
SimilaritySearch(index, k) == Prefix(index, k)

(***************************************************************************)
(* Context assembler: build_context_snippets.                              *)
(***************************************************************************)
CONTEXT_HEAD == "--- CONTEXT (file: "
CONTEXT_MID == ", chunk: "
CONTEXT_TAIL == ") ---\n"
SNIPPET_TRUNCATED == "\n\n...[truncated]"

\* doc.metadata.get("source", "unknown")
SourceOf(metadata) ==
    IF "source" \in DOMAIN metadata THEN metadata.source ELSE <<"unknown">>

\* the text of doc.metadata.get("chunk_id") in the header
ChunkIdOf(metadata) ==
    IF "chunk_id" \in DOMAIN metadata THEN ToString(metadata.chunk_id) ELSE "None"

\* a body cut to the limit without a marker
SnippetTextNoMarker(page_content, char_limit_per_chunk) ==
    Prefix(Strip(page_content), char_limit_per_chunk)

\* main.py lines 81-83: the body of one chunk
SnippetText(page_content, char_limit_per_chunk) ==
    LET text == Strip(page_content)
    IN  IF Len(text) > char_limit_per_chunk
        THEN Prefix(text, char_limit_per_chunk) \o <<SNIPPET_TRUNCATED>>
        ELSE text

\* main.py lines 79-84: the section of one chunk
SnippetPart(doc, char_limit_per_chunk) ==
    <<CONTEXT_HEAD>> \o SourceOf(doc.metadata)
        \o <<CONTEXT_MID, ChunkIdOf(doc.metadata), CONTEXT_TAIL>>
        \o SnippetText(doc.page_content, char_limit_per_chunk)
        \o <<"\n">>

\* main.py lines 72-85
build_context_snippets(retrieved_documents, char_limit_per_chunk) ==
    Join([i \in 1..Len(retrieved_documents) |->
             SnippetPart(retrieved_documents[i], char_limit_per_chunk)],
         <<"\n">>)

(***************************************************************************)
(* State.                                                                  *)
(***************************************************************************)
VARIABLES
    fs,            \* the files of the input directory: exists, bytes, mtime
    coll,          \* the documents of the cache store
    vectordb,      \* the records of the vector index
    call,          \* per process: the frame of its parse_file_by_type call
    boot,          \* per process: the frame of its build_or_load_vectorstore call
    prog,          \* per process: what main printed and asked of the agent
    started,       \* ingestion calls the processes made on their own
    boots,         \* bootstraps and program runs started
    faults,        \* file system events and persistence errors so far
    fn             \* a function of the program called on its own: arguments, result

vars == <<fs, coll, vectordb, call, boot, prog, started, boots, faults, fn>>

\* the bytes of the input files when the program starts; the third and the
\* fifth file are byte-identical copies of the first under other names
InitialBytes ==
    << <<"a", "b">>,
       <<"a", "\n", "b">>,
       <<"a", "b">>,
       <<"a", "\n", "<s>", "b">>,
       <<"a", "b">>,
       <<"a">> >>

\* the bytes another process may rewrite a file with
RewriteBytes == {<<"!", "a", " ", "b">>}

IdleCall ==
    [pc |-> "idle", owner |-> "direct", file |-> 0, kind |-> "", use_cache |-> TRUE,
     file_hash |-> <<>>, md |-> <<>>, meta |-> None, doc |-> None,
     result |-> None, error |-> "",
     \* history: the bytes hashed and parsed, whether the store held the
     \* fingerprint of the file when the call first read it, which steps the
     \* call has run
     hbytes |-> <<>>, pbytes |-> <<>>, held |-> FALSE, normalized |-> FALSE,
     inserted |-> FALSE, duplicate |-> FALSE]

IdleBoot ==
    [pc |-> "idle", caller |-> "direct", has_content |-> FALSE, files |-> <<>>, i |-> 1,
     texts |-> <<>>, metadatas |-> <<>>,
     \* CHUNK_SIZE and CHUNK_OVERLAP as the run read them from its environment
     chunk_size |-> CHUNK_SIZE, chunk_overlap |-> CHUNK_OVERLAP,
     \* history: the index before the call, the outcome of each file walked,
     \* the numbers of ingestion calls, inserts and adds of this call
     before |-> <<>>, log |-> <<>>, nIngest |-> 0, nInsert |-> 0, nAdd |-> 0,
     \* history kept from one call to the next: the fingerprints this process
     \* put in the store, each with the configuration then in force
     cached_under |-> {}]

\* out: the lines printed; agent: the calls of agent.invoke; index0 (history):
\* the index when main began
IdleProg == [out |-> <<>>, agent |-> 0, index0 |-> <<>>]

\* a record an earlier run left in the index
OldRecord ==
    [text |-> <<"o">>,
     metadata |-> [source |-> <<"o">>, file_hash |-> Sha256(<<"o">>), chunk_id |-> 0]]

\* no function is called on its own
IdleFn ==
    [op |-> "none", done |-> FALSE,
     retrieved_documents |-> <<>>, char_limit_per_chunk |-> 0, context |-> <<>>,
     \* parse_file_by_type: the path, and the parsers run (history)
     path |-> <<>>, ran |-> <<>>,
     \* parse_html_document: the content of the file, max_chars, the text returned
     raw |-> <<>>, max_chars |-> 0, md |-> <<>>]

\* the store, the index, the files and the processes when the program starts
InitProgram ==
    /\ \E present \in BOOLEAN :
          fs = [f \in FileIds |->
                  [exists |-> present, bytes |-> InitialBytes[f], mtime |-> 0]]
    /\ coll = {}
    /\ vectordb \in {<<>>, <<OldRecord>>}
    /\ call = [p \in Procs |-> IdleCall]
    /\ boot = [p \in Procs |-> IdleBoot]
    /\ prog = [p \in Procs |-> IdleProg]
    /\ started = 0
    /\ boots = 0
    /\ faults = 0

Init == InitProgram /\ fn = IdleFn

\* time.time(): the clock ticks when an operation starts
Now == started + boots

Idle(p) == call[p].pc \in {"idle", "done"} /\ boot[p].pc \in {"idle", "done"}

(***************************************************************************)
(* The end of an ingestion call, and what its caller does with it.         *)
(***************************************************************************)
\* the call returns (md, meta), taken from the store's record src
Return(f, result, src) ==
    [f EXCEPT !.pc = "done", !.result = result, !.doc = src]

\* the call raises
Raise(f, error) == [f EXCEPT !.pc = "done", !.error = error]

\* main.py lines 55-65: the body of the walk after parse_file_by_type
AfterFile(b, f) ==
    LET inserts == IF f.inserted THEN 1 ELSE 0
        splitter == Splitter(b.chunk_size, b.chunk_overlap)
        put == IF f.inserted /\ ~f.duplicate /\ f.error = ""
               THEN {[file_hash |-> f.file_hash,
                      chunk_size |-> b.chunk_size, chunk_overlap |-> b.chunk_overlap]}
               ELSE {}
    IN  IF f.error # ""
        THEN [b EXCEPT !.i = AfterFailure(b.i, Len(b.files)),
                       !.nInsert = @ + inserts,
                       !.log = Append(@, [file |-> f.file, error |-> f.error,
                                          md |-> <<>>, cached |-> FALSE, src |-> None])]
        ELSE LET chunks == SplitText(f.result.md, splitter.chunk_size, splitter.chunk_overlap)
             IN  [b EXCEPT !.texts = @ \o chunks,
                           !.cached_under = @ \cup put,
                           !.metadatas = @ \o ChunkMetadatas(Corpus[f.file], f.result.meta, chunks),
                           !.i = @ + 1,
                           !.nInsert = @ + inserts,
                           !.log = Append(@, [file |-> f.file, error |-> "",
                                              md |-> f.result.md,
                                              cached |-> f.result.meta.cached,
                                              src |-> f.doc])]

\* the call of process p ends with frame f
Finish(p, f) ==
    /\ call' = [call EXCEPT ![p] = f]
    /\ boot' = IF f.owner = "boot"
               THEN [boot EXCEPT ![p] = AfterFile(boot[p], f)]
               ELSE boot

\* the call of process p goes on with frame f
Continue(p, f) ==
    /\ call' = [call EXCEPT ![p] = f]
    /\ boot' = boot

\* parse_file_by_type, lines 202-213: the frame of a new call
BeginCall(owner, file, use_cache) ==
    LET kind == ParserOf(Corpus[file])
    IN  [IdleCall EXCEPT !.pc = IF kind = "txt_or_other" THEN "parse" ELSE "hash",
                         !.owner = owner, !.file = file, !.kind = kind,
                         !.use_cache = use_cache]

(***************************************************************************)
(* Ingestion: parse_file_by_type and the parser it selects.                *)
(***************************************************************************)
\* a process calls parse_file_by_type(path, use_cache)
StartCall(p, file, use_cache) ==
    /\ Idle(p)
    \* the processes are interchangeable: the first call is p1's
    /\ p = "p1" \/ started > 0
    /\ started < MaxCalls
    /\ started' = started + 1
    /\ call' = [call EXCEPT ![p] = BeginCall("direct", file, use_cache)]
    /\ UNCHANGED <<fn, fs, coll, vectordb, boot, prog, boots, faults>>

\* the existence check and sha256_of_file (lines 72-75, 105-108, 144-147,
\* 172-175; line 214 on the plain path)
Hash(p) ==
    LET f == call[p]
        bytes == fs[f.file].bytes
        h == Sha256(bytes)
    IN  /\ f.pc = "hash"
        /\ IF ~fs[f.file].exists
           THEN Finish(p, Raise(f, "FileNotFound"))
           ELSE Continue(p, [f EXCEPT !.file_hash = h,
                                      !.hbytes = bytes,
                                      !.held = IF f.kind = "txt_or_other" THEN @
                                               ELSE get_cached_parse(coll, h) # None,
                                      !.pc = AfterHash(f.kind, f.use_cache)])
        /\ UNCHANGED <<fn, fs, coll, vectordb, prog, started, boots, faults>>

\* the cache lookup of a parser (lines 77-80, 109-112, 148-151, 176-179)
Lookup(p) ==
    LET f == call[p]
        cached == get_cached_parse(coll, f.file_hash)
    IN  /\ f.pc = "lookup"
        /\ IF cached # None
           THEN Finish(p, Return(f, HitReturn(cached, f.file_hash), cached))
           ELSE Continue(p, [f EXCEPT !.pc = "parse"])
        /\ UNCHANGED <<fn, fs, coll, vectordb, prog, started, boots, faults>>

\* the read of the file and its normalization (lines 84-94, 115-133, 153-163,
\* 181-191, 212-213)
Parse(p) ==
    LET f == call[p]
        bytes == fs[f.file].bytes
    IN  /\ f.pc = "parse"
        /\ IF ~fs[f.file].exists
           THEN Finish(p, Raise(f, "FileNotFound"))
           ELSE \E r \in ParseResults(f.kind, bytes) :
                   IF ~r.ok
                   THEN Finish(p, Raise(f, r.err))
                   ELSE Continue(p, [f EXCEPT !.md = r.md, !.meta = r.meta,
                                              !.pbytes = bytes,
                                              !.held = IF f.kind = "txt_or_other"
                                                       THEN get_cached_parse(coll, Sha256(bytes)) # None
                                                       ELSE @,
                                              !.normalized = TRUE,
                                              !.pc = IF f.kind = "txt_or_other"
                                                     THEN "hash" ELSE "upsert"])
        /\ UNCHANGED <<fn, fs, coll, vectordb, prog, started, boots, faults>>

\* upsert_parsed_doc, lines 45-58: os.stat, the document, insert_one
Upsert(p) ==
    LET f == call[p]
        stat == [size |-> Len(fs[f.file].bytes), mtime |-> fs[f.file].mtime]
        doc == NewDoc(Corpus[f.file], f.file_hash, f.md, f.meta, stat, Now)
        r == InsertOne(coll, doc)
        g == [f EXCEPT !.inserted = TRUE, !.doc = doc, !.duplicate = r.dup]
    IN  /\ f.pc = "upsert"
        /\ \/ \* insert_one raises a persistence error other than the duplicate key
              /\ fs[f.file].exists
              /\ faults < MaxFaults
              /\ faults' = faults + 1
              /\ coll' = coll
              /\ Finish(p, Raise([f EXCEPT !.inserted = TRUE], "StoreFailure"))
           \/ /\ faults' = faults
              /\ IF ~fs[f.file].exists
                 THEN coll' = coll /\ Finish(p, Raise(f, "FileNotFound"))
                 ELSE /\ coll' = r.coll
                      /\ IF r.dup
                         THEN Continue(p, [g EXCEPT !.pc = "reread"])
                         ELSE Finish(p, Return(g, MissReturn(f.kind, f.md, f.meta, doc, f.file_hash), doc))
        /\ UNCHANGED <<fn, fs, vectordb, prog, started, boots>>

\* upsert_parsed_doc, lines 58-61: the duplicate key, and the record returned
Reread(p) ==
    LET f == call[p]
        cached == get_cached_parse(coll, f.file_hash)
        stored == DuplicateReturn(cached, f.doc)
    IN  /\ f.pc = "reread"
        /\ Finish(p, Return(f, MissReturn(f.kind, f.md, f.meta, stored, f.file_hash), stored))
        /\ UNCHANGED <<fn, fs, coll, vectordb, prog, started, boots, faults>>

(***************************************************************************)
(* The file system, as other programs change it.                           *)
(***************************************************************************)
\* An event on a file commutes with every step up to the next read of the
\* file, so events are explored where a read is about to follow: on the file
\* of an ingestion call whose next step reads it, and (removals) before the
\* directory is listed.
Reading(file) ==
    \E p \in Procs : call[p].pc \in {"hash", "parse", "upsert"} /\ call[p].file = file

Listing == \E p \in Procs : boot[p].pc = "probe"

FsRewrite(file, bytes) ==
    /\ faults < MaxFaults
    /\ Reading(file)
    /\ fs[file].exists
    /\ bytes # fs[file].bytes
    /\ fs' = [fs EXCEPT ![file].bytes = bytes, ![file].mtime = @ + 1]
    /\ faults' = faults + 1
    /\ UNCHANGED <<fn, coll, vectordb, call, boot, prog, started, boots>>

FsRemove(file) ==
    /\ faults < MaxFaults
    /\ Reading(file) \/ Listing
    /\ fs[file].exists
    /\ fs' = [fs EXCEPT ![file].exists = FALSE]
    /\ faults' = faults + 1
    /\ UNCHANGED <<fn, coll, vectordb, call, boot, prog, started, boots>>

(***************************************************************************)
(* Bootstrap: build_or_load_vectorstore.                                   *)
(***************************************************************************)
FileExists(file) == fs[file].exists

\* os.walk(input_dir): the files of the directory, in order
ListDir == SelectSeq([i \in FileIds |-> i], FileExists)

\* the frame of a new build_or_load_vectorstore call
BeginBoot(caller) ==
    [IdleBoot EXCEPT !.pc = "probe", !.caller = caller, !.before = vectordb]

\* the frame of the call of process p in a run that read this configuration
BeginBootWith(p, caller, chunk_size, chunk_overlap) ==
    [BeginBoot(caller) EXCEPT !.chunk_size = chunk_size,
                              !.chunk_overlap = chunk_overlap,
                              !.cached_under = boot[p].cached_under]

\* a process calls build_or_load_vectorstore(input_dir); the index has one
\* writer at a time
StartBoot(p) ==
    /\ Idle(p)
    /\ boots < MaxBoots
    /\ \A q \in Procs : boot[q].pc \in {"idle", "done"}
    /\ boots' = boots + 1
    /\ boot' = [boot EXCEPT ![p] = BeginBootWith(p, "direct", CHUNK_SIZE, CHUNK_OVERLAP)]
    /\ UNCHANGED <<fn, fs, coll, vectordb, call, prog, started, faults>>

\* the configurations a run may be given in its environment
ChunkConfigs ==
    {[chunk_size |-> 3, chunk_overlap |-> 1], [chunk_size |-> 2, chunk_overlap |-> 0]}

\* a run whose environment sets CHUNK_SIZE and CHUNK_OVERLAP (main.py lines
\* 18-19) calls build_or_load_vectorstore(input_dir)
StartBootWith(p, config) ==
    /\ Idle(p)
    /\ boots < MaxBoots
    /\ \A q \in Procs : boot[q].pc \in {"idle", "done"}
    /\ boots' = boots + 1
    /\ boot' = [boot EXCEPT ![p] =
                    BeginBootWith(p, "direct", config.chunk_size, config.chunk_overlap)]
    /\ UNCHANGED <<fn, fs, coll, vectordb, call, prog, started, faults>>

\* lines 40-50: the existence probe (which may raise), and the listing of
\* the input directory when the bootstrap ingests
Probe(p) ==
    LET b == boot[p]
    IN  /\ b.pc = "probe"
        /\ \E raised \in BOOLEAN :
              LET has_content == IF raised THEN FALSE ELSE Len(vectordb) > 0
              IN  boot' = [boot EXCEPT ![p] =
                              IF ShouldIngest(has_content)
                              THEN [b EXCEPT !.pc = "walk", !.has_content = has_content,
                                             !.files = ListDir]
                              ELSE [b EXCEPT !.pc = "return", !.has_content = has_content]]
        /\ UNCHANGED <<fn, fs, coll, vectordb, call, prog, started, boots, faults>>

\* lines 51-56: the next file of the walk: a dot file is passed over, any
\* other file is handed to parse_file_by_type with use_cache=True
Walk(p) ==
    LET b == boot[p]
        file == b.files[b.i]
    IN  /\ b.pc = "walk"
        /\ b.i <= Len(b.files)
        /\ call[p].pc \in {"idle", "done"}
        /\ IF IsDotFile(Corpus[file])
           THEN /\ boot' = [boot EXCEPT ![p].i = @ + 1]
                /\ call' = call
           ELSE /\ boot' = [boot EXCEPT ![p].nIngest = @ + 1]
                /\ call' = [call EXCEPT ![p] = BeginCall("boot", file, TRUE)]
        /\ UNCHANGED <<fn, fs, coll, vectordb, prog, started, boots, faults>>

\* lines 67-68: after the walk, the batch is added to the index
AddTexts(p) ==
    LET b == boot[p]
        batch == [i \in 1..Len(b.texts) |-> [text |-> b.texts[i], metadata |-> b.metadatas[i]]]
    IN  /\ b.pc = "walk"
        /\ b.i > Len(b.files)
        /\ call[p].pc \in {"idle", "done"}
        /\ IF ShouldAdd(b.texts)
           THEN /\ vectordb' = vectordb \o batch
                /\ boot' = [boot EXCEPT ![p].pc = "return", ![p].nAdd = @ + 1]
           ELSE /\ vectordb' = vectordb
                /\ boot' = [boot EXCEPT ![p].pc = "return"]
        /\ UNCHANGED <<fn, fs, coll, call, prog, started, boots, faults>>

(***************************************************************************)
(* The program: main.                                                      *)
(***************************************************************************)
\* the parameters of build_or_load_vectorstore (main.py line 31) and the
\* arguments main passes to it (main.py line 92)
BuildParams == 1
MainCallArgs == 2
TOP_K == 5

\* main, lines 106-131: the query, the retrieval and the answer
MainQuery(pr, index, query) ==
    IF query = ""
    THEN [pr EXCEPT !.out = Append(@, "No query provided. Exiting.")]
    ELSE LET results == SimilaritySearch(index, TOP_K)
         IN  IF results = <<>>
             THEN [pr EXCEPT !.out = Append(@, "Data not found!")]
             ELSE [pr EXCEPT !.out = Append(@, "context for the query : "),
                             !.agent = @ + 1]

\* main, lines 89-95: the call of build_or_load_vectorstore; a call whose
\* arguments do not fit the parameters raises TypeError, which main reports
Main(p) ==
    /\ Idle(p)
    /\ boots < MaxBoots
    /\ \A q \in Procs : boot[q].pc \in {"idle", "done"}
    /\ boots' = boots + 1
    /\ IF MainCallArgs = BuildParams
       THEN /\ boot' = [boot EXCEPT ![p] = BeginBootWith(p, "main", CHUNK_SIZE, CHUNK_OVERLAP)]
            /\ prog' = [prog EXCEPT ![p] =
                          [IdleProg EXCEPT !.out = <<"[start] building/loading vectorstore...">>,
                                           !.index0 = vectordb]]
       ELSE /\ boot' = boot
            /\ prog' = [prog EXCEPT ![p] =
                          [IdleProg EXCEPT !.out = <<"[start] building/loading vectorstore...",
                                                     "Vectorstore init failed:">>,
                                           !.index0 = vectordb]]
    /\ UNCHANGED <<fn, fs, coll, vectordb, call, started, faults>>

\* line 69: build_or_load_vectorstore returns; main goes on with the query
BootReturn(p) ==
    LET b == boot[p]
    IN  /\ b.pc = "return"
        /\ boot' = [boot EXCEPT ![p].pc = "done"]
        /\ IF b.caller = "main"
           THEN \E query \in {"", "q"} :
                   prog' = [prog EXCEPT ![p] = MainQuery(prog[p], vectordb, query)]
           ELSE prog' = prog
        /\ UNCHANGED <<fn, fs, coll, vectordb, call, started, boots, faults>>

(***************************************************************************)
(* Specification.                                                          *)
(***************************************************************************)
\* the files a process hands to parse_file_by_type on its own
CallFiles == {f \in FileIds : ~IsDotFile(Corpus[f])}

Ingestion ==
    \/ \E p \in Procs : Hash(p)
    \/ \E p \in Procs : Lookup(p)
    \/ \E p \in Procs : Parse(p)
    \/ \E p \in Procs : Upsert(p)
    \/ \E p \in Procs : Reread(p)
    \/ \E file \in FileIds, bytes \in RewriteBytes : FsRewrite(file, bytes)
    \/ \E file \in FileIds : FsRemove(file)

\* independent processes ingesting files of a populated directory
InitCache ==
    /\ Init
    /\ vectordb = <<>>
    /\ \A f \in FileIds : fs[f].exists

Next ==
    \/ \E p \in Procs, file \in CallFiles, use_cache \in BOOLEAN :
          StartCall(p, file, use_cache)
    \/ Ingestion

Spec == InitCache /\ [][Next]_vars

\* the process that runs the program
Runner == "p1"

\* bootstraps and program runs, one after the other; the duplicate key is
\* met on the byte-identical files of the directory
NextBoot ==
    \/ Ingestion
    \/ StartBoot(Runner)
    \/ Probe(Runner)
    \/ Walk(Runner)
    \/ AddTexts(Runner)
    \/ BootReturn(Runner)
    \/ Main(Runner)

SpecBoot == Init /\ [][NextBoot]_vars

\* bootstraps of runs that differ in their chunking configuration
NextRechunk ==
    \/ Ingestion
    \/ \E config \in ChunkConfigs : StartBootWith(Runner, config)
    \/ Probe(Runner)
    \/ Walk(Runner)
    \/ AddTexts(Runner)
    \/ BootReturn(Runner)

SpecRechunk == Init /\ [][NextRechunk]_vars

(***************************************************************************)
(* The functions of the program, each called on its own on every argument  *)
(* of a bounded set.                                                       *)
(***************************************************************************)
\* the texts of the retrieved chunks
PageContents ==
    {<<>>, <<"a">>, <<"a", "b", "c">>, <<"a", " ", "b">>, <<" ", "a", "b", "\n">>}

\* their metadata: those of the bootstrap, and those of a record without source
ChunkMetas ==
    {[source |-> <<"f">>, chunk_id |-> 0],
     [source |-> <<"g">>, chunk_id |-> 1],
     [file_hash |-> <<"h">>]}

RetrievedDocuments ==
    {[page_content |-> c, metadata |-> m] : c \in PageContents, m \in ChunkMetas}

\* the calls of build_context_snippets explored
SnippetCalls ==
    {[IdleFn EXCEPT !.op = "build_context_snippets",
                    !.retrieved_documents = docs,
                    !.char_limit_per_chunk = limit] :
        docs \in UNION {[1..n -> RetrievedDocuments] : n \in 0..MaxDocs},
        limit \in 0..MaxLimit}

\* the paths handed to the dispatch, written without their separators
PathNames ==
    {"a.pdf", "a.PDF", "a.Pdf", "b.csv", "b.CSV", "b.cSv", "c.json", "c.JSON", "c.JsOn",
     "d.html", "d.HTML", "d.hTmL", "d.htm", "d.HTM", "d.Htm",
     "e", "e.txt", "e.", "pdf", ".pdf", ".csv", "a.pdf.txt", "a.txt.pdf", "a.b.CSV",
     "a.pdfx", "a.pd", "a.jso", "a.htmlx", "a.ht", "x.pdf/e", "x.txt/c.json", "x.pdf/.htm",
     "./in/d.html", "./in/e"}

\* the characters of a path name
Chars(str) ==
    CASE str = "a.pdf" -> <<"a", ".", "p", "d", "f">>
      [] str = "a.PDF" -> <<"a", ".", "P", "D", "F">>
      [] str = "a.Pdf" -> <<"a", ".", "P", "d", "f">>
      [] str = "b.csv" -> <<"b", ".", "c", "s", "v">>
      [] str = "b.CSV" -> <<"b", ".", "C", "S", "V">>
      [] str = "b.cSv" -> <<"b", ".", "c", "S", "v">>
      [] str = "c.json" -> <<"c", ".", "j", "s", "o", "n">>
      [] str = "c.JSON" -> <<"c", ".", "J", "S", "O", "N">>
      [] str = "c.JsOn" -> <<"c", ".", "J", "s", "O", "n">>
      [] str = "d.html" -> <<"d", ".", "h", "t", "m", "l">>
      [] str = "d.HTML" -> <<"d", ".", "H", "T", "M", "L">>
      [] str = "d.hTmL" -> <<"d", ".", "h", "T", "m", "L">>
      [] str = "d.htm" -> <<"d", ".", "h", "t", "m">>
      [] str = "d.HTM" -> <<"d", ".", "H", "T", "M">>
      [] str = "d.Htm" -> <<"d", ".", "H", "t", "m">>
      [] str = "e" -> <<"e">>
      [] str = "e.txt" -> <<"e", ".", "t", "x", "t">>
      [] str = "e." -> <<"e", ".">>
      [] str = "pdf" -> <<"p", "d", "f">>
      [] str = ".pdf" -> <<".", "p", "d", "f">>
      [] str = ".csv" -> <<".", "c", "s", "v">>
      [] str = "a.pdf.txt" -> <<"a", ".", "p", "d", "f", ".", "t", "x", "t">>
      [] str = "a.txt.pdf" -> <<"a", ".", "t", "x", "t", ".", "p", "d", "f">>
      [] str = "a.b.CSV" -> <<"a", ".", "b", ".", "C", "S", "V">>
      [] str = "a.pdfx" -> <<"a", ".", "p", "d", "f", "x">>
      [] str = "a.pd" -> <<"a", ".", "p", "d">>
      [] str = "a.jso" -> <<"a", ".", "j", "s", "o">>
      [] str = "a.htmlx" -> <<"a", ".", "h", "t", "m", "l", "x">>
      [] str = "a.ht" -> <<"a", ".", "h", "t">>
      [] str = "x.pdf/e" -> <<"x", ".", "p", "d", "f", "/", "e">>
      [] str = "x.txt/c.json" -> <<"x", ".", "t", "x", "t", "/", "c", ".", "j", "s", "o", "n">>
      [] str = "x.pdf/.htm" -> <<"x", ".", "p", "d", "f", "/", ".", "h", "t", "m">>
      [] str = "./in/d.html" -> <<".", "/", "i", "n", "/", "d", ".", "h", "t", "m", "l">>
      [] str = "./in/e" -> <<".", "/", "i", "n", "/", "e">>

\* the calls of parse_file_by_type explored for its dispatch
DispatchCalls ==
    {[IdleFn EXCEPT !.op = "parse_file_by_type", !.path = Chars(str)] : str \in PathNames}

\* the characters of an HTML input: letters, white space, and "<s>" for a
\* whole script, style or noscript element
HtmlChars == {"a", "b", " ", "\n", "<s>"}

\* the calls of parse_html_document explored, on a file not yet cached
HtmlCalls ==
    {[IdleFn EXCEPT !.op = "parse_html_document", !.raw = raw, !.max_chars = max_chars] :
        raw \in UNION {[1..n -> HtmlChars] : n \in 0..MaxHtmlLen},
        max_chars \in 0..MaxHtmlChars}

InitFn ==
    /\ InitProgram
    /\ vectordb = <<>>
    /\ \A f \in FileIds : fs[f].exists
    /\ fn \in SnippetCalls \cup DispatchCalls \cup HtmlCalls

\* parse_html_document(html_path, max_chars=max_chars), lines 181-191, on a
\* file of this content
ParseHtmlDocument ==
    /\ fn.op = "parse_html_document"
    /\ ~fn.done
    /\ fn' = [fn EXCEPT !.done = TRUE, !.md = HtmlNormalize(fn.raw, fn.max_chars).md]
    /\ UNCHANGED <<fs, coll, vectordb, call, boot, prog, started, boots, faults>>

\* parse_file_by_type(path), lines 202-211: the parser the call hands the
\* path to
ParseFileByType ==
    /\ fn.op = "parse_file_by_type"
    /\ ~fn.done
    /\ fn' = [fn EXCEPT !.done = TRUE, !.ran = Append(@, ParserOf(fn.path))]
    /\ UNCHANGED <<fs, coll, vectordb, call, boot, prog, started, boots, faults>>

\* build_context_snippets(retrieved_documents, char_limit_per_chunk) returns
BuildContextSnippets ==
    /\ fn.op = "build_context_snippets"
    /\ ~fn.done
    /\ fn' = [fn EXCEPT !.done = TRUE,
                        !.context = build_context_snippets(fn.retrieved_documents,
                                                           fn.char_limit_per_chunk)]
    /\ UNCHANGED <<fs, coll, vectordb, call, boot, prog, started, boots, faults>>

NextFn ==
    \/ BuildContextSnippets
    \/ ParseFileByType
    \/ ParseHtmlDocument

SpecFn == InitFn /\ [][NextFn]_vars

(***************************************************************************)
(* Properties of the cache and of the ingestion calls.                     *)
(***************************************************************************)
Done(p) == call[p].pc = "done"
Returned(p) == Done(p) /\ call[p].error = ""
Records(file_hash) == {d \in coll : d.file_hash = file_hash}

\* C1: the store never holds two records with one fingerprint, and once a
\* process has run its insert for a fingerprint (whatever the others do at
\* the same time) the store holds exactly one record with it.
C1_OneRecordPerFingerprint ==
    /\ \A d1 \in coll, d2 \in coll : d1.file_hash = d2.file_hash => d1 = d2
    /\ \A p \in Procs :
          call[p].inserted /\ call[p].error # "StoreFailure"
              => Cardinality(Records(call[p].file_hash)) = 1

\* two processes missed the cache for one fingerprint, both inserted, one of
\* them met the duplicate key
C1_Witness ==
    \E p \in Procs, q \in Procs :
        /\ p # q
        /\ call[p].use_cache /\ call[q].use_cache
        /\ call[p].kind # "txt_or_other" /\ call[q].kind # "txt_or_other"
        /\ call[p].file_hash = call[q].file_hash
        /\ call[p].inserted /\ call[q].inserted
        /\ call[p].duplicate /\ ~call[q].duplicate
        /\ call[p].error = "" /\ call[q].error = ""

\* C2: a call whose insert met the duplicate key does not raise: it returns
\* the record the store holds for its fingerprint (the winner's), with that
\* record's text and fingerprint.
C2_LoserGetsWinner ==
    \A p \in Procs :
        Done(p) /\ call[p].duplicate =>
            /\ call[p].error = ""
            /\ call[p].doc \in coll
            /\ call[p].doc.file_hash = call[p].file_hash
            /\ call[p].result.md = call[p].doc.md
            /\ call[p].result.meta.file_hash = call[p].file_hash

\* a loser that had proposed another text than the one it returns
C2_Witness ==
    \E p \in Procs :
        /\ Done(p) /\ call[p].duplicate
        /\ call[p].md # call[p].result.md

\* C3: two calls with use_cache=true on one file that computed one
\* fingerprint return the same text, one after the other or racing, and the
\* store then holds exactly one record with that fingerprint.
C3_SameTextTwice ==
    \A p \in Procs, q \in Procs :
        /\ Returned(p) /\ Returned(q)
        /\ call[p].use_cache /\ call[q].use_cache
        /\ call[p].file = call[q].file
        /\ call[p].file_hash = call[q].file_hash
        => /\ call[p].result.md = call[q].result.md
           /\ Cardinality(Records(call[p].file_hash)) = 1

\* two racing calls on the pdf: both missed the cache, both parsed, and the
\* service gave them different pages
C3_Witness ==
    \E p \in Procs, q \in Procs :
        /\ p # q
        /\ Returned(p) /\ Returned(q)
        /\ call[p].use_cache /\ call[q].use_cache
        /\ call[p].file = call[q].file
        /\ call[p].file_hash = call[q].file_hash
        /\ call[p].normalized /\ call[q].normalized
        /\ call[p].md # call[q].md

\* C4: a call with use_cache=true whose fingerprint the store already holds
\* runs neither the normalization nor the insert, and returns cached=true,
\* whichever parser it is.
C4_CacheHitShortCircuits ==
    \A p \in Procs :
        call[p].use_cache /\ call[p].held =>
            /\ ~call[p].normalized
            /\ ~call[p].inserted
            /\ Returned(p) => call[p].result.meta.cached

\* C5: a record of the store is never changed and never removed.
C5_RecordsAreImmutable == [][\A d \in coll : d \in coll']_vars

\* a call with use_cache=false normalized the file again to another text
\* than the stored one, and its insert was refused
C5_Witness ==
    \E p \in Procs :
        /\ Done(p) /\ ~call[p].use_cache /\ call[p].duplicate
        /\ call[p].doc \in coll
        /\ call[p].md # call[p].doc.md

(***************************************************************************)
(* Properties of the bootstrap and of the program.                         *)
(***************************************************************************)
NotDot(file) == ~IsDotFile(Corpus[file])

\* the files the log of a walk speaks of, in order
LogFiles(log) == [i \in 1..Len(log) |-> log[i].file]

\* the chunks a walk with this log owes to the batch: none for a file that
\* failed, all the chunks of its text for any other
ChunksOwed(log) ==
    Flatten([i \in 1..Len(log) |->
                IF log[i].error # "" THEN <<>>
                ELSE SplitText(log[i].md, CHUNK_SIZE, CHUNK_OVERLAP)])

\* the metadata owed with them: the file's name, the fingerprint of the
\* record the text was taken from, the position of the chunk from zero
MetadatasOwed(log) ==
    Flatten([i \in 1..Len(log) |->
                IF log[i].error # "" THEN <<>>
                ELSE [k \in 1..Len(SplitText(log[i].md, CHUNK_SIZE, CHUNK_OVERLAP)) |->
                        [source |-> Corpus[log[i].file],
                         file_hash |-> log[i].src.file_hash,
                         chunk_id |-> k - 1]]])

WalkOver(b) == b.pc \in {"return", "done"}

\* C6: a persistence error raised by the insert ends the ingestion call with
\* that error and without a result, and a bootstrap that met one walks no
\* further: it is not a file passed over.
C6_StoreFailureAbortsBootstrap ==
    /\ \A p \in Procs :
          Done(p) /\ call[p].error = "StoreFailure" => call[p].result = None
    /\ \A p \in Procs : \A i \in 1..Len(boot[p].log) :
          boot[p].log[i].error = "StoreFailure"
              => i = Len(boot[p].log) /\ boot[p].pc \notin {"walk", "return", "done"}

\* C7: a bootstrap whose probe reported content makes no ingestion call, no
\* insert and no add, and leaves the index as it was; no bootstrap adds to
\* the index more than once.
C7_BootstrapIsOneShot ==
    \A p \in Procs :
        /\ boot[p].has_content =>
              /\ boot[p].nIngest = 0 /\ boot[p].nInsert = 0 /\ boot[p].nAdd = 0
              /\ WalkOver(boot[p]) => vectordb = boot[p].before
        /\ boot[p].nAdd <= 1

\* a bootstrap that found the batch of an earlier bootstrap in the index
C7_Witness ==
    \E p \in Procs :
        /\ boot[p].pc = "done" /\ boot[p].has_content
        /\ \E i \in 1..Len(vectordb) : vectordb[i] # OldRecord

\* C8: the batch of a walk holds no chunk of a file that failed and every
\* chunk of each other file, and a walk that is over has gone through every
\* file listed that is no dot file.
C8_PerFileIsolation ==
    \A p \in Procs :
        /\ boot[p].texts = ChunksOwed(boot[p].log)
        /\ Len(boot[p].metadatas) = Len(boot[p].texts)
        /\ WalkOver(boot[p]) => LogFiles(boot[p].log) = SelectSeq(boot[p].files, NotDot)

\* a walk that is over, in which a missing file and a failure of the PDF
\* service were followed by a file that gave chunks
C8_Witness ==
    \E p \in Procs :
        LET log == boot[p].log
        IN  /\ WalkOver(boot[p])
            /\ \E i \in 1..Len(log), j \in 1..Len(log), k \in 1..Len(log) :
                  /\ log[i].error = "ExternalServiceFailure"
                  /\ log[j].error = "FileNotFound"
                  /\ i < k /\ j < k
                  /\ log[k].error = "" /\ Len(log[k].md) > 0

\* C9: the metadata of the batch are, file by file, the file's name, the
\* fingerprint of the store's record the text was returned from, and the
\* chunk ids 0, 1, ... in the order of the chunks.
C9_ChunkMetadataConsistent ==
    \A p \in Procs :
        /\ boot[p].metadatas = MetadatasOwed(boot[p].log)
        /\ \A i \in 1..Len(boot[p].log) :
              boot[p].log[i].error = "" =>
                  /\ boot[p].log[i].src \in coll
                  /\ boot[p].log[i].src.md = boot[p].log[i].md
        /\ \A i \in 1..Len(boot[p].metadatas) : boot[p].metadatas[i].file_hash # None

\* a walk with a file served from the cache and a file that was parsed, each
\* of two chunks or more
C9_Witness ==
    \E p \in Procs :
        LET log == boot[p].log
        IN  /\ WalkOver(boot[p])
            /\ \E i \in 1..Len(log), j \in 1..Len(log) :
                  /\ log[i].error = "" /\ log[i].cached
                  /\ log[j].error = "" /\ ~log[j].cached
                  /\ Len(SplitText(log[i].md, CHUNK_SIZE, CHUNK_OVERLAP)) >= 2
                  /\ Len(SplitText(log[j].md, CHUNK_SIZE, CHUNK_OVERLAP)) >= 2

\* C10: a run of the program on an empty input directory and an empty index
\* leaves the index empty, prints "Data not found!" and does not invoke the
\* agent.
C10_EmptyDirectoryDataNotFound ==
    \A p \in Procs :
        /\ prog[p].out # <<>> /\ boot[p].pc \in {"idle", "done"}
        /\ \A f \in FileIds : ~fs[f].exists
        /\ prog[p].index0 = <<>>
        => /\ vectordb = <<>>
           /\ prog[p].agent = 0
           /\ prog[p].out[Len(prog[p].out)] = "Data not found!"

(***************************************************************************)
(* Properties of the parsers and of the records they store.                *)
(***************************************************************************)
\* the bytes a structured parser read do not parse
Malformed(kind, bytes) ==
    \/ kind = "csv" /\ CsvMalformed(bytes)
    \/ kind = "json" /\ JsonMalformed(bytes)

\* the length of the raw text a structured parser falls back to
FallbackLimit(kind) == IF kind = "csv" THEN CSV_FALLBACK_CHARS ELSE MAX_CHARS

\* C11: a CSV or JSON call never ends with a parse error, and a call that
\* read bytes that do not parse proposes to the store a bounded prefix of the
\* raw text, with metadata that carry an error field; the record it inserts
\* is that text with those metadata.
C11_ParseFailureRecovered ==
    \A p \in Procs :
        LET f == call[p]
        IN  /\ f.kind \in {"csv", "json"} =>
                  f.error \in {"", "FileNotFound", "StoreFailure"}
            /\ f.normalized /\ Malformed(f.kind, f.pbytes) =>
                  /\ \E n \in 0..FallbackLimit(f.kind) :
                        /\ n = Min(Len(f.pbytes), FallbackLimit(f.kind))
                        /\ SubSeq(f.md, 2, n + 1) = Prefix(f.pbytes, n)
                        /\ Len(f.md) <= n + 3
                  /\ "error" \in DOMAIN f.meta
                  /\ f.inserted /\ ~f.duplicate /\ f.error = "" =>
                        f.doc \in coll /\ f.doc.md = f.md /\ "error" \in DOMAIN f.doc.meta

\* C12: every record of the store has metadata with a type, one of pdf, csv,
\* json, html and txt_or_other.
C12_EveryRecordHasType ==
    \A d \in coll :
        /\ "type" \in DOMAIN d.meta
        /\ d.meta.type \in {"pdf", "csv", "json", "html", "txt_or_other"}

\* the store holds a record of the plain/unknown parser, or the record of a
\* fallback for which a second call lost the race
C12_Witness ==
    \/ \E d \in coll : "type" \in DOMAIN d.meta /\ d.meta.type = "txt_or_other"
    \/ \E p \in Procs, q \in Procs :
          /\ p # q
          /\ Done(p) /\ call[p].duplicate
          /\ call[q].inserted /\ ~call[q].duplicate /\ call[q].doc \in coll
          /\ "error" \in DOMAIN call[q].doc.meta

(***************************************************************************)
(* Properties of the context assembler.                                    *)
(***************************************************************************)
\* the positions of the headers in a context
HeaderPositions(context) == {i \in 1..Len(context) : context[i] = CONTEXT_HEAD}

\* the position of the k-th header
NthHeader(context, k) ==
    CHOOSE i \in HeaderPositions(context) :
        Cardinality({j \in HeaderPositions(context) : j < i}) = k - 1

\* the k-th section: from its header up to the next header
Section(context, k) ==
    SubSeq(context, NthHeader(context, k),
           IF k < Cardinality(HeaderPositions(context))
           THEN NthHeader(context, k + 1) - 1
           ELSE Len(context))

\* the body owed to a chunk text under a limit
BodyOwed(text, limit) ==
    IF Len(text) > limit THEN SubSeq(text, 1, limit) \o <<SNIPPET_TRUNCATED>> ELSE text

\* the context returned has one section per chunk, in the order received,
\* whose header names the chunk's source and chunk id and whose body is the
\* body owed to the chunk's text, Text(page_content)
SectionsAsOwed(Text(_)) ==
    fn.op = "build_context_snippets" /\ fn.done =>
        LET docs == fn.retrieved_documents
            limit == fn.char_limit_per_chunk
            out == fn.context
        IN  /\ Cardinality(HeaderPositions(out)) = Len(docs)
            /\ Len(docs) = 0 => out = <<>>
            /\ Len(docs) > 0 => out[1] = CONTEXT_HEAD
            /\ \A k \in 1..Len(docs) :
                  LET body == BodyOwed(Text(docs[k].page_content), limit)
                  IN  /\ Section(out, k) =
                            <<CONTEXT_HEAD>> \o SourceOf(docs[k].metadata)
                                \o <<CONTEXT_MID, ChunkIdOf(docs[k].metadata), CONTEXT_TAIL>>
                                \o body
                                \o (IF k < Len(docs) THEN <<"\n", "\n">> ELSE <<"\n">>)
                      /\ Len(Text(docs[k].page_content)) > limit =>
                            /\ Len(body) = limit + 1
                            /\ body[Len(body)] = SNIPPET_TRUNCATED
                      /\ Len(Text(docs[k].page_content)) <= limit =>
                            SNIPPET_TRUNCATED \notin Range(Section(out, k))

WholeText(page_content) == page_content

\* C13 as stated: the body of a chunk is its text as retrieved; a text longer
\* than the limit is cut to the limit and followed by the marker, a text
\* within the limit is emitted whole and without a marker.
C13_SectionsOfWholeTexts == SectionsAsOwed(WholeText)

\* C13: one section per chunk, in the order received, naming the chunk's
\* source and chunk id; the body is the chunk's text with the white space
\* around it stripped: cut to exactly the limit and followed by the marker
\* when the stripped text is longer than the limit, without a marker when it
\* is within.
C13_SectionsOfStrippedTexts == SectionsAsOwed(Strip)

\* two chunks, one whose stripped text exceeds the limit, one whose text
\* exceeds it only by the white space around it
C13_Witness ==
    /\ fn.op = "build_context_snippets" /\ fn.done
    /\ \E i \in 1..Len(fn.retrieved_documents), j \in 1..Len(fn.retrieved_documents) :
          LET ci == fn.retrieved_documents[i].page_content
              cj == fn.retrieved_documents[j].page_content
          IN  /\ i < j
              /\ Len(Strip(ci)) > fn.char_limit_per_chunk
              /\ Len(cj) > fn.char_limit_per_chunk
              /\ Len(Strip(cj)) <= fn.char_limit_per_chunk
              /\ Len(Strip(cj)) > 0

(***************************************************************************)
(* Properties of the dispatch.                                             *)
(***************************************************************************)
\* the last component of a path
LastComponent(path) ==
    LET seps == {i \in 1..Len(path) : path[i] = "/"}
    IN  IF seps = {} THEN path
        ELSE SubSeq(path, 1 + (CHOOSE i \in seps : \A j \in seps : j <= i), Len(path))

\* the extensions of the formats, each letter in either case
Extensions ==
    [pdf |-> {<<{"."}, {"p", "P"}, {"d", "D"}, {"f", "F"}>>},
     csv |-> {<<{"."}, {"c", "C"}, {"s", "S"}, {"v", "V"}>>},
     json |-> {<<{"."}, {"j", "J"}, {"s", "S"}, {"o", "O"}, {"n", "N"}>>},
     html |-> {<<{"."}, {"h", "H"}, {"t", "T"}, {"m", "M"}, {"l", "L"}>>,
               <<{"."}, {"h", "H"}, {"t", "T"}, {"m", "M"}>>}]

\* the path's last component is a name (not made of dots only) followed by
\* the extension pattern
EndsWith(path, pattern) ==
    LET name == LastComponent(path)
        stem == Len(name) - Len(pattern)
    IN  /\ stem >= 1
        /\ \A i \in 1..Len(pattern) : name[stem + i] \in pattern[i]
        /\ \E i \in 1..stem : name[i] # "."

HasExtension(path, format) == \E pattern \in Extensions[format] : EndsWith(path, pattern)

\* C14: a call runs exactly one parser: the pdf, csv, json or html parser
\* when the path ends with that format's extension in any letter case, the
\* plain/unknown parser when it ends with none of them.
C14_DispatchByExtension ==
    fn.op = "parse_file_by_type" /\ fn.done =>
        /\ Len(fn.ran) = 1
        /\ \A format \in DOMAIN Extensions :
              HasExtension(fn.path, format) <=> fn.ran[1] = format
        /\ (\A format \in DOMAIN Extensions : ~HasExtension(fn.path, format))
              <=> fn.ran[1] = "txt_or_other"

\* a path whose extension is written in mixed case was dispatched
C14_Witness ==
    /\ fn.op = "parse_file_by_type" /\ fn.done
    /\ fn.ran = <<"html">>
    /\ fn.path # Lower(fn.path)

(***************************************************************************)
(* Properties of the chunks of documents already cached.                   *)
(***************************************************************************)
\* the configurations under which this process put a fingerprint in the store
ConfigsCachedUnder(b, file_hash) == {e \in b.cached_under : e.file_hash = file_hash}

\* the chunks a walk owes to the batch under a configuration
ChunksOwedUnder(log, chunk_size, chunk_overlap) ==
    Flatten([i \in 1..Len(log) |->
                IF log[i].error # "" THEN <<>>
                ELSE SplitText(log[i].md, chunk_size, chunk_overlap)])

\* C15 as stated: the chunks a bootstrap emits for a document whose
\* fingerprint was already in the store are the chunks of its text under
\* the configuration in force when it was first cached.
C15_ChunksAsWhenFirstCached ==
    \A p \in Procs : \A i \in 1..Len(boot[p].log) :
        LET b == boot[p]
            e == b.log[i]
        IN  e.error = "" /\ e.cached =>
                \A c \in ConfigsCachedUnder(b, e.src.file_hash) :
                    SplitText(e.md, b.chunk_size, b.chunk_overlap)
                        = SplitText(e.md, c.chunk_size, c.chunk_overlap)

\* C15: a changed chunking configuration has no effect on the text of a
\* document already cached: a cache hit returns the text of the record in
\* the store, which was put there once; the chunks the bootstrap emits are
\* the chunks of that text under the configuration of the bootstrap's run.
C15_CachedTextRechunked ==
    \A p \in Procs :
        LET b == boot[p]
        IN  /\ b.texts = ChunksOwedUnder(b.log, b.chunk_size, b.chunk_overlap)
            /\ \A i \in 1..Len(b.log) :
                  b.log[i].error = "" /\ b.log[i].cached =>
                      /\ b.log[i].src \in coll
                      /\ b.log[i].md = b.log[i].src.md
                      /\ Cardinality(ConfigsCachedUnder(b, b.log[i].src.file_hash)) = 1

\* a walk that is over served a document from the cache under another
\* configuration than the one it was cached under, and cut it otherwise
C15_Witness ==
    \E p \in Procs : \E i \in 1..Len(boot[p].log) :
        LET b == boot[p]
            e == b.log[i]
        IN  /\ WalkOver(b)
            /\ e.error = "" /\ e.cached
            /\ \E c \in ConfigsCachedUnder(b, e.src.file_hash) :
                  /\ <<c.chunk_size, c.chunk_overlap>> # <<b.chunk_size, b.chunk_overlap>>
                  /\ SplitText(e.md, b.chunk_size, b.chunk_overlap)
                        # SplitText(e.md, c.chunk_size, c.chunk_overlap)

(***************************************************************************)
(* Properties of the index during and after a bootstrap.                   *)
(***************************************************************************)
\* the chunk records of a walk: its texts, each with its metadata
BatchOf(b) == [i \in 1..Len(b.texts) |-> [text |-> b.texts[i], metadata |-> b.metadatas[i]]]

\* C16: at every moment of a bootstrap the index is as it was before the
\* call, or it is that followed by the chunk records of every file of the
\* walk that was ingested; the records are added once, after the walk has
\* gone through all the files, and nothing is added when no file gave chunks.
C16_IndexNeverPartial ==
    \A p \in Procs :
        LET b == boot[p]
        IN  b.pc # "idle" =>
              /\ b.nAdd <= 1
              /\ b.nAdd = 0 => vectordb = b.before
              /\ b.nAdd = 1 =>
                    /\ WalkOver(b)
                    /\ LogFiles(b.log) = SelectSeq(b.files, NotDot)
                    /\ b.texts = ChunksOwedUnder(b.log, b.chunk_size, b.chunk_overlap)
                    /\ vectordb = b.before \o BatchOf(b)
              /\ WalkOver(b) /\ b.texts = <<>> => b.nAdd = 0 /\ vectordb = b.before

\* a walk in which a file failed after another had given chunks, its batch
\* added to the index
C16_Witness ==
    \E p \in Procs :
        LET b == boot[p]
        IN  /\ b.nAdd = 1
            /\ \E i \in 1..Len(b.log), j \in 1..Len(b.log) :
                  /\ i < j
                  /\ b.log[i].error = "" /\ Len(b.log[i].md) > 0
                  /\ b.log[j].error # ""
            /\ vectordb = b.before \o BatchOf(b)
            /\ Len(BatchOf(b)) >= 2

(***************************************************************************)
(* Properties of the HTML normalization.                                   *)
(***************************************************************************)
\* the visible text of an HTML input: without its script, style and
\* noscript elements, its lines stripped, the blank ones dropped
VisibleText(raw) ==
    LET text == SelectSeq(raw, NotScript)
        stripped == [i \in 1..Len(SplitLines(text)) |-> Strip(SplitLines(text)[i])]
    IN  Join(SelectSeq(stripped, NonEmpty), <<"\n", "\n">>)

\* a text returned, without its truncation marker
WithoutMarker(md) ==
    IF Len(md) > 0 /\ md[Len(md)] = HTML_TRUNCATED THEN SubSeq(md, 1, Len(md) - 1) ELSE md

HasMarker(md) == HTML_TRUNCATED \in Range(md)

\* C17: the text returned has at most max_chars characters before its
\* marker; the marker is there exactly when the visible text of the input is
\* longer than max_chars, and a text returned without a marker is the whole
\* visible text of the input.
C17_HtmlOutputBounded ==
    fn.op = "parse_html_document" /\ fn.done =>
        /\ Len(WithoutMarker(fn.md)) <= fn.max_chars
        /\ HasMarker(fn.md) <=> Len(VisibleText(fn.raw)) > fn.max_chars
        /\ ~HasMarker(fn.md) => fn.md = VisibleText(fn.raw)

(***************************************************************************)
(* Properties of the calls that bypass the cache.                          *)
(***************************************************************************)
\* the call of p bypasses the cache, and the store held the fingerprint of
\* the file when the call read it
Bypassing(f) ==
    /\ ~f.use_cache
    /\ f.held
    /\ f.kind = "txt_or_other" => f.pbytes = f.hbytes

\* C18: a call with use_cache=false on a file whose fingerprint the store
\* holds, when it returns, has normalized the file and tried the insert,
\* which met the duplicate key; it returns the text of the record the store
\* holds, with cached=false; and its insert leaves the store as it was.
C18_BypassKeepsFirstWriter ==
    /\ [](\A p \in Procs :
            Bypassing(call[p]) /\ Returned(p) =>
                /\ call[p].normalized /\ call[p].inserted /\ call[p].duplicate
                /\ call[p].doc \in coll
                /\ call[p].doc.file_hash = call[p].file_hash
                /\ call[p].result.md = call[p].doc.md
                /\ ~call[p].result.meta.cached)
    /\ [][\A p \in Procs :
            /\ Bypassing(call[p])
            /\ call[p].pc = "upsert" /\ call'[p].pc # "upsert"
            => coll' = coll]_vars

\* a call that bypassed the cache normalized the file to another text than
\* the stored one, and returned the stored one
C18_Witness ==
    \E p \in Procs :
        /\ Bypassing(call[p]) /\ Returned(p)
        /\ call[p].kind # "txt_or_other"
        /\ call[p].duplicate
        /\ ~call[p].result.meta.cached
        /\ call[p].md # call[p].result.md

(***************************************************************************)
(* Properties of the records under rewrites of the source files.           *)
(***************************************************************************)
\* the bytes a fingerprint was computed over
HashedBytes(file_hash) == Tail(file_hash)

\* C19: the text of every record of the store is a normalization, by the
\* parser the record names, of the bytes its fingerprint was computed over,
\* and the call that stored it hashed and normalized the same bytes.
C19_TextOfTheHashedBytes ==
    /\ \A d \in coll :
          \E r \in ParseResults(d.meta.type, HashedBytes(d.file_hash)) :
              r.ok /\ r.md = d.md
    /\ \A p \in Procs :
          call[p].inserted /\ ~call[p].duplicate /\ call[p].error = ""
              => call[p].hbytes = call[p].pbytes

====
